---- MODULE Spec2Model ----
(***************************************************************************)
(* Model of PolynomialSolver (src/polynomial.jsx): base-N digit decoding,  *)
(* exact rational Lagrange evaluation, and the solve pipeline              *)
(* Parse -> Decode -> SelectSubset -> Interpolate -> Verify -> Done.       *)
(*                                                                         *)
(* Characters are their UTF-16 code units (charCodeAt), strings are        *)
(* sequences of code units.  A JS value that Number()/Number.isInteger     *)
(* inspects is a record [kind, v]: kind "int" carries the integer v,       *)
(* kind "nonint" is any non-integer (NaN, 1.5, a non-numeric string) and   *)
(* kind "undefined" is an absent property.  A function that may throw      *)
(* returns [err, val]; err = "none" means it returned val.                 *)
(***************************************************************************)
EXTENDS Integers, Sequences, FiniteSets, TLC

VARIABLES data, pc, points, selected, constantTerm, error, tampered,
          convArgs, convOut, lagPts, lagX0, ct, ev

vars == <<data, pc, points, selected, constantTerm, error, tampered,
          convArgs, convOut, lagPts, lagX0, ct, ev>>

solveVars == <<data, pc, points, selected, constantTerm, error, tampered>>
convVars == <<convArgs, convOut>>
lagVars == <<lagPts, lagX0, ct, ev>>

(***************************************************************************)
(* Bounds of the model.                                                    *)
(***************************************************************************)
MaxLen == 3       \* longest digit string handed to convertToDecimalBigInt
MaxPoints == 3    \* most points in a generated dataset
MaxX == 1         \* generated x values are -1..MaxX
MaxY == 1         \* generated y values are 0..MaxY

(***************************************************************************)
(* JS values.                                                              *)
(***************************************************************************)
Num(i) == [kind |-> "int", v |-> i]
NotInt == [kind |-> "nonint", v |-> 0]
Undefined == [kind |-> "undefined", v |-> 0]

\* Number.isInteger(Number(v))
IsInteger(v) == v.kind = "int"

Ok(v) == [err |-> "none", val |-> v]
Throw(e) == [err |-> e, val |-> 0]

Abs(a) == IF a < 0 THEN -a ELSE a

\* BigInt division truncates toward zero; the remainder takes the dividend's sign.
BigIntDiv(a, b) ==
    IF (a < 0) = (b < 0) THEN Abs(a) \div Abs(b) ELSE -(Abs(a) \div Abs(b))

BigIntRem(a, b) == a - b * BigIntDiv(a, b)

(***************************************************************************)
(* getDigitValue and convertToDecimalBigInt.                               *)
(***************************************************************************)
\* the digit mapping with the two letter ranges exchanged
getDigitValueUpperFirst(code) ==
    IF code >= 48 /\ code <= 57 THEN Ok(code - 48)
    ELSE IF code >= 65 /\ code <= 90 THEN Ok(10 + (code - 65))
    ELSE IF code >= 97 /\ code <= 122 THEN Ok(36 + (code - 97))
    ELSE Throw("InvalidDigit")

getDigitValue(code) ==
    IF code >= 48 /\ code <= 57 THEN Ok(code - 48)
    ELSE IF code >= 97 /\ code <= 122 THEN Ok(10 + (code - 97))
    ELSE IF code >= 65 /\ code <= 90 THEN Ok(36 + (code - 65))
    ELSE Throw("InvalidDigit")

RECURSIVE convertLoop(_, _, _, _)
convertLoop(value, baseNum, i, res) ==
    IF i > Len(value) THEN Ok(res)
    ELSE LET digit == getDigitValue(value[i]) IN
         IF digit.err # "none" THEN Throw(digit.err)
         ELSE IF digit.val >= baseNum THEN Throw("DigitOutOfRange")
         ELSE convertLoop(value, baseNum, i + 1, res * baseNum + digit.val)

\* the empty-string check made before the base check
convertEmptyFirst(value, base) ==
    IF Len(value) = 0 THEN Throw("EmptyValue")
    ELSE IF ~IsInteger(base) \/ base.v < 2 \/ base.v > 62 THEN Throw("InvalidBase")
    ELSE convertLoop(value, base.v, 1, 0)

convertToDecimalBigInt(value, base) ==
    IF ~IsInteger(base) \/ base.v < 2 \/ base.v > 62 THEN Throw("InvalidBase")
    ELSE IF Len(value) = 0 THEN Throw("EmptyValue")
    ELSE convertLoop(value, base.v, 1, 0)

(***************************************************************************)
(* gcdBig, findConstantTerm, evaluateAt, verifyAllPoints.                  *)
(***************************************************************************)
RECURSIVE gcdLoop(_, _)
gcdLoop(a, b) == IF b = 0 THEN a ELSE gcdLoop(b, a % b)

gcdBig(a, b) == gcdLoop(Abs(a), Abs(b))

\* sum + term, the new numerator and denominator left as they are
AddTermNoReduce(sumNum, sumDen, termNum, termDen) ==
    [err |-> "none", num |-> sumNum * termDen + termNum * sumDen,
     den |-> sumDen * termDen]

\* sum + term, reduced by the gcd of the new numerator and denominator
AddTerm(sumNum, sumDen, termNum, termDen) ==
    LET newNum == sumNum * termDen + termNum * sumDen
        newDen == sumDen * termDen
        g == gcdBig(newNum, newDen)
    IN IF g = 0 THEN [err |-> "RangeError", num |-> newNum, den |-> newDen]
       ELSE [err |-> "none", num |-> BigIntDiv(newNum, g), den |-> BigIntDiv(newDen, g)]

\* the inner loop with termNum *= xj, the sign of xj not flipped
RECURSIVE constTermInnerNoNegate(_, _, _, _, _)
constTermInnerNoNegate(pts, i, j, termNum, termDen) ==
    IF j > Len(pts) THEN [num |-> termNum, den |-> termDen]
    ELSE IF i = j THEN constTermInnerNoNegate(pts, i, j + 1, termNum, termDen)
    ELSE constTermInnerNoNegate(pts, i, j + 1, termNum * pts[j].x,
                                termDen * (pts[i].x - pts[j].x))

\* the inner j loop of findConstantTerm: termNum *= -xj, termDen *= (xi - xj)
RECURSIVE constTermInner(_, _, _, _, _)
constTermInner(pts, i, j, termNum, termDen) ==
    IF j > Len(pts) THEN [num |-> termNum, den |-> termDen]
    ELSE IF i = j THEN constTermInner(pts, i, j + 1, termNum, termDen)
    ELSE constTermInner(pts, i, j + 1, termNum * (-pts[j].x),
                        termDen * (pts[i].x - pts[j].x))

RECURSIVE constTermLoop(_, _, _, _)
constTermLoop(pts, i, sumNum, sumDen) ==
    IF i > Len(pts) THEN [err |-> "none", num |-> sumNum, den |-> sumDen]
    ELSE LET term == constTermInner(pts, i, 1, pts[i].y, 1) IN
         IF term.den = 0 THEN [err |-> "DuplicateAbscissa", num |-> sumNum, den |-> sumDen]
         ELSE LET s == AddTerm(sumNum, sumDen, term.num, term.den) IN
              IF s.err # "none" THEN s
              ELSE constTermLoop(pts, i + 1, s.num, s.den)

findConstantTerm(pts) ==
    IF Len(pts) = 0 THEN Throw("NoPoints")
    ELSE LET s == constTermLoop(pts, 1, 0, 1) IN
         IF s.err # "none" THEN Throw(s.err)
         ELSE IF s.den = 0 THEN Throw("InternalMathError")
         ELSE IF BigIntRem(s.num, s.den) # 0 THEN Throw("NonIntegerResult")
         ELSE Ok(BigIntDiv(s.num, s.den))

\* the inner loop with termNum *= (xj - x0)
RECURSIVE evaluateInnerSwapped(_, _, _, _, _, _)
evaluateInnerSwapped(x0, pts, i, j, termNum, termDen) ==
    IF j > Len(pts) THEN [num |-> termNum, den |-> termDen]
    ELSE IF i = j THEN evaluateInnerSwapped(x0, pts, i, j + 1, termNum, termDen)
    ELSE evaluateInnerSwapped(x0, pts, i, j + 1, termNum * (pts[j].x - x0),
                              termDen * (pts[i].x - pts[j].x))

\* the inner j loop of evaluateAt: termNum *= (x0 - xj), termDen *= (xi - xj)
RECURSIVE evaluateInner(_, _, _, _, _, _)
evaluateInner(x0, pts, i, j, termNum, termDen) ==
    IF j > Len(pts) THEN [num |-> termNum, den |-> termDen]
    ELSE IF i = j THEN evaluateInner(x0, pts, i, j + 1, termNum, termDen)
    ELSE evaluateInner(x0, pts, i, j + 1, termNum * (x0 - pts[j].x),
                       termDen * (pts[i].x - pts[j].x))

RECURSIVE evaluateLoop(_, _, _, _, _)
evaluateLoop(x0, pts, i, sumNum, sumDen) ==
    IF i > Len(pts) THEN [err |-> "none", num |-> sumNum, den |-> sumDen]
    ELSE LET term == evaluateInner(x0, pts, i, 1, pts[i].y, 1) IN
         IF term.den = 0 THEN [err |-> "DuplicateAbscissa", num |-> sumNum, den |-> sumDen]
         ELSE LET s == AddTerm(sumNum, sumDen, term.num, term.den) IN
              IF s.err # "none" THEN s
              ELSE evaluateLoop(x0, pts, i + 1, s.num, s.den)

evaluateAt(x0, pts) ==
    IF Len(pts) = 0 THEN Ok(0)
    ELSE LET s == evaluateLoop(x0, pts, 1, 0, 1) IN
         IF s.err # "none" THEN Throw(s.err)
         ELSE IF s.den = 0 THEN Throw("InternalMathError")
         ELSE IF BigIntRem(s.num, s.den) # 0 THEN Throw("NonIntegerResult")
         ELSE Ok(BigIntDiv(s.num, s.den))

\* the loop returning true as soon as one point matches
verifyFirstOnly(selectedPoints, allPoints, i) ==
    IF i > Len(allPoints) THEN [err |-> "none", val |-> TRUE]
    ELSE LET r == evaluateAt(allPoints[i].x, selectedPoints) IN
         IF r.err # "none" THEN [err |-> r.err, val |-> FALSE]
         ELSE IF r.val # allPoints[i].y THEN [err |-> "none", val |-> FALSE]
         ELSE [err |-> "none", val |-> TRUE]

\* [err, val]: val is the boolean verifyAllPoints returns; err is what an
\* evaluateAt call inside it threw
RECURSIVE verifyLoop(_, _, _)
verifyLoop(selectedPoints, allPoints, i) ==
    IF i > Len(allPoints) THEN [err |-> "none", val |-> TRUE]
    ELSE LET r == evaluateAt(allPoints[i].x, selectedPoints) IN
         IF r.err # "none" THEN [err |-> r.err, val |-> FALSE]
         ELSE IF r.val # allPoints[i].y THEN [err |-> "none", val |-> FALSE]
         ELSE verifyLoop(selectedPoints, allPoints, i + 1)

\* the verification run over the selected points only
verifySelectedOnly(selectedPoints, allPoints) == verifyLoop(selectedPoints, selectedPoints, 1)

verifyAllPoints(selectedPoints, allPoints) == verifyLoop(selectedPoints, allPoints, 1)

(***************************************************************************)
(* solve, one action per stage.  data is the parsed JSON object: hasKeys,  *)
(* keys.n, keys.k and the entries other than "keys" in Object.keys order,  *)
(* each [x, base, value] with x = Number(key).                             *)
(***************************************************************************)
\* the for loop over Object.keys(data): the first entry that throws ends it
\* (every value is a string here, so "Bad point format" comes from an absent base)
RECURSIVE decodeLoop(_, _, _)
decodeLoop(entries, i, pts) ==
    IF i > Len(entries) THEN [err |-> "none", val |-> pts]
    ELSE LET e == entries[i] IN
         IF ~IsInteger(e.x) THEN [err |-> "InvalidKey", val |-> pts]
         ELSE IF e.base.kind = "undefined" THEN [err |-> "BadPointFormat", val |-> pts]
         ELSE LET yBig == convertToDecimalBigInt(e.value, e.base) IN
              IF yBig.err # "none" THEN [err |-> yBig.err, val |-> pts]
              ELSE decodeLoop(entries, i + 1, Append(pts, [x |-> e.x.v, y |-> yBig.val]))

\* Array.prototype.sort with (a, b) => a.x - b.x: stable, ascending x
RECURSIVE insertByX(_, _)
insertByX(sorted, p) ==
    IF sorted = <<>> THEN <<p>>
    ELSE IF sorted[Len(sorted)].x - p.x <= 0 THEN Append(sorted, p)
    ELSE Append(insertByX(SubSeq(sorted, 1, Len(sorted) - 1), p), sorted[Len(sorted)])

\* the points left in input order
noSort(pts) == pts

RECURSIVE sortByX(_)
sortByX(pts) ==
    IF pts = <<>> THEN <<>>
    ELSE insertByX(sortByX(SubSeq(pts, 1, Len(pts) - 1)), pts[Len(pts)])

\* points.slice(0, k): a negative k counts from the end
slice0(pts, k) ==
    LET end == IF k < 0 THEN (IF Len(pts) + k < 0 THEN 0 ELSE Len(pts) + k)
               ELSE (IF k > Len(pts) THEN Len(pts) ELSE k)
    IN SubSeq(pts, 1, end)

\* the set size compared with > instead of !==
hasDuplicateXGreater(sel) == Cardinality({sel[i].x : i \in 1..Len(sel)}) > Len(sel)

\* new Set(selected.map(p => p.x)).size !== selected.length
hasDuplicateX(sel) == Cardinality({sel[i].x : i \in 1..Len(sel)}) # Len(sel)

Fail(e) == /\ pc' = "Failed"
           /\ error' = e

Parse ==
    /\ pc = "Parse"
    /\ IF ~data.hasKeys THEN Fail("MissingField")
       ELSE IF ~IsInteger(data.n) \/ ~IsInteger(data.k) THEN Fail("MissingField")
       ELSE pc' = "Decode" /\ error' = error
    /\ UNCHANGED <<data, points, selected, constantTerm, tampered, convVars, lagVars>>

\* the count check of the next stage made before the points are decoded
DecodeCountFirst ==
    /\ pc = "Decode"
    /\ LET r == decodeLoop(data.entries, 1, <<>>) IN
       IF Len(data.entries) < data.k.v
       THEN Fail("InsufficientPoints") /\ points' = points
       ELSE IF r.err # "none"
       THEN Fail(r.err) /\ points' = points
       ELSE pc' = "SelectSubset" /\ points' = r.val /\ error' = error
    /\ UNCHANGED <<data, selected, constantTerm, tampered, convVars, lagVars>>

Decode ==
    /\ pc = "Decode"
    /\ LET r == decodeLoop(data.entries, 1, <<>>) IN
       IF r.err # "none"
       THEN Fail(r.err) /\ points' = points
       ELSE pc' = "SelectSubset" /\ points' = r.val /\ error' = error
    /\ UNCHANGED <<data, selected, constantTerm, tampered, convVars, lagVars>>

SelectSubset ==
    /\ pc = "SelectSubset"
    /\ IF Len(points) < data.k.v
       THEN Fail("InsufficientPoints") /\ UNCHANGED <<points, selected>>
       ELSE LET sorted == sortByX(points)
                sel == slice0(sorted, data.k.v)
            IN /\ points' = sorted
               /\ selected' = sel
               /\ IF hasDuplicateX(sel) THEN Fail("DuplicateAbscissa")
                  ELSE pc' = "Interpolate" /\ error' = error
    /\ UNCHANGED <<data, constantTerm, tampered, convVars, lagVars>>

Interpolate ==
    /\ pc = "Interpolate"
    /\ LET r == findConstantTerm(selected) IN
       IF r.err # "none"
       THEN Fail(r.err) /\ constantTerm' = constantTerm
       ELSE pc' = "Verify" /\ constantTerm' = r.val /\ error' = error
    /\ UNCHANGED <<data, points, selected, tampered, convVars, lagVars>>

Verify ==
    /\ pc = "Verify"
    /\ LET r == verifyAllPoints(selected, points) IN
       IF r.err # "none" THEN Fail(r.err)
       ELSE IF ~r.val THEN Fail("VerificationFailed")
       ELSE pc' = "Done" /\ error' = error
    /\ UNCHANGED <<data, points, selected, constantTerm, tampered, convVars, lagVars>>

(***************************************************************************)
(* The datasets solve is run on.                                           *)
(***************************************************************************)
Digit(y) == 48 + y
Entry(x, b, value) == [x |-> Num(x), base |-> Num(b), value |-> value]

XVals == -1..MaxX
YVals == 0..MaxY

PolyEntry == {Entry(x, 10, <<Digit(y)>>) : x \in XVals, y \in YVals}

\* well-formed keys: n is the number of points, k a positive count
KeyPairs(len) == {[n |-> Num(len), k |-> Num(i)] : i \in 1..MaxPoints}

\* keys.n or keys.k absent, not an integer, zero or negative
BadKeyPairs(len) ==
    {[n |-> Num(len), k |-> k] : k \in {NotInt, Undefined, Num(0), Num(-1)}}
    \cup {[n |-> n, k |-> Num(1)] : n \in {Num(-1), NotInt, Undefined}}
    \cup {[n |-> Num(0), k |-> Num(2)], [n |-> Num(0), k |-> Num(-1)]}

DataOf(keys, entries) ==
    [hasKeys |-> TRUE, n |-> keys.n, k |-> keys.k, entries |-> entries]

\* digit strings and bases at the edges of the decoder
EdgeEntry ==
    { Entry(0, 16, <<70, 70>>), Entry(0, 16, <<102, 102>>), Entry(0, 40, <<49, 65>>),
      Entry(0, 10, <<>>), Entry(0, 10, <<45, 49>>), Entry(0, 1, <<48>>),
      Entry(0, 63, <<48>>), Entry(0, 2, <<50>>),
      [x |-> Num(0), base |-> NotInt, value |-> <<49>>],
      [x |-> Num(0), base |-> Undefined, value |-> <<49>>],
      [x |-> NotInt, base |-> Num(10), value |-> <<49>>],
      Entry(1, 10, <<49>>), Entry(1, 2, <<49, 48>>) }

\* defaultTestCases: Test Case 1 and the base-40 edge case
TestCase1 ==
    DataOf([n |-> Num(4), k |-> Num(3)],
           << Entry(1, 10, <<52>>), Entry(2, 2, <<49, 49, 49>>),
              Entry(3, 10, <<49, 50>>), Entry(6, 4, <<50, 49, 51>>) >>)

TestCase3 ==
    DataOf([n |-> Num(3), k |-> Num(3)],
           << Entry(1, 40, <<49, 65>>), Entry(2, 10, <<52, 53, 54>>),
              Entry(3, 10, <<55, 56, 57>>) >>)

NoKeys == [hasKeys |-> FALSE, n |-> Undefined, k |-> Undefined, entries |-> <<>>]

\* Generated datasets, datasets with bad keys (three points are enough for
\* them), datasets at the edges of the decoder, and the test cases.  Keys such
\* as "-1" or "01" are not array indices: Object.keys keeps their insertion
\* order and two keys can give the same x, so entries come in any order of x
\* and may repeat an x.
InitData ==
    \/ \E m \in 0..MaxPoints : \E es \in [1..m -> PolyEntry] : \E keys \in KeyPairs(m) :
          data = DataOf(keys, es)
    \/ \E m \in 0..3 : \E es \in [1..m -> PolyEntry] : \E keys \in BadKeyPairs(m) :
          data = DataOf(keys, es)
    \/ \E m \in 1..2 : \E es \in [1..m -> EdgeEntry] : \E k \in 1..2 :
          data = DataOf([n |-> Num(m), k |-> Num(k)], es)
    \/ data \in {TestCase1, TestCase3, NoKeys}

\* the caller edits one point's value in a dataset that solved, and solves again
Tamper ==
    /\ pc = "Done"
    /\ tampered = 0
    /\ \E i \in 1..Len(data.entries), y \in YVals :
          /\ convertToDecimalBigInt(data.entries[i].value, data.entries[i].base).val # y
          /\ data' = [data EXCEPT !.entries[i].base = Num(10), !.entries[i].value = <<Digit(y)>>]
          /\ tampered' = i
    /\ pc' = "Parse"
    /\ points' = <<>>
    /\ selected' = <<>>
    /\ constantTerm' = 0
    /\ error' = "none"
    /\ UNCHANGED <<convVars, lagVars>>

NoConv == [value |-> <<>>, base |-> Undefined]

\* the locals of one findConstantTerm or evaluateAt call: the outer loop
\* index i, the running sum sumNum/sumDen, and out, what the call returned
\* or threw (err = "pending" while it runs)
Frame(state) == [i |-> 1, sumNum |-> 0, sumDen |-> 1, out |-> Throw(state)]

\* no findConstantTerm or evaluateAt call is traced
NoLagrange ==
    /\ lagPts = <<>>
    /\ lagX0 = 0
    /\ ct = Frame("idle")
    /\ ev = Frame("idle")

Init ==
    /\ InitData
    /\ pc = "Parse"
    /\ points = <<>>
    /\ selected = <<>>
    /\ constantTerm = 0
    /\ error = "none"
    /\ tampered = 0
    /\ convArgs = NoConv
    /\ convOut = Throw("pending")
    /\ NoLagrange

Next == Parse \/ Decode \/ SelectSubset \/ Interpolate \/ Verify \/ Tamper

Spec == Init /\ [][Next]_vars

(***************************************************************************)
(* convertToDecimalBigInt on its own: one call on a bounded digit string.  *)
(***************************************************************************)
\* '0' '1' '2' '3' '9' 'a' 'f' 'z' 'A' 'F' 'Z' '-'
Chars == {48, 49, 50, 51, 57, 97, 102, 122, 65, 70, 90, 45}

Bases == {Num(b) : b \in {0, 1, 2, 4, 10, 11, 16, 36, 37, 62, 63}} \cup {NotInt, Undefined}

Convert ==
    /\ convOut.err = "pending"
    /\ convOut' = convertToDecimalBigInt(convArgs.value, convArgs.base)
    /\ UNCHANGED <<convArgs, solveVars, lagVars>>

InitConvert ==
    /\ \E m \in 0..MaxLen : \E s \in [1..m -> Chars] : \E b \in Bases :
          convArgs = [value |-> s, base |-> b]
    /\ convOut = Throw("pending")
    /\ data = NoKeys
    /\ pc = "Idle"
    /\ points = <<>>
    /\ selected = <<>>
    /\ constantTerm = 0
    /\ error = "none"
    /\ tampered = 0
    /\ NoLagrange

NextConvert == Convert

SpecConvert == InitConvert /\ [][NextConvert]_vars

(***************************************************************************)
(* findConstantTerm and evaluateAt traced one outer-loop iteration at a    *)
(* time on the same list of points: findConstantTerm(lagPts) first, then   *)
(* evaluateAt(lagX0, lagPts).                                              *)
(***************************************************************************)
\* the y values of the traced points
LagY == -1..MaxY

\* the outcome of a call when its loop has ended with the sum num/den
Result(num, den) ==
    IF den = 0 THEN Throw("InternalMathError")
    ELSE IF BigIntRem(num, den) # 0 THEN Throw("NonIntegerResult")
    ELSE Ok(BigIntDiv(num, den))

\* what one iteration of the outer loop makes of the frame f, term being
\* the Lagrange term the inner loop computed
Fold(f, term) ==
    IF term.den = 0 THEN [f EXCEPT !.out = Throw("DuplicateAbscissa")]
    ELSE LET s == AddTerm(f.sumNum, f.sumDen, term.num, term.den) IN
         IF s.err # "none" THEN [f EXCEPT !.out = Throw(s.err)]
         ELSE [f EXCEPT !.i = @ + 1, !.sumNum = s.num, !.sumDen = s.den]

ConstTermStep ==
    /\ ct.out.err = "pending"
    /\ ct.i <= Len(lagPts)
    /\ ct' = Fold(ct, constTermInner(lagPts, ct.i, 1, lagPts[ct.i].y, 1))
    /\ UNCHANGED <<lagPts, lagX0, ev, solveVars, convVars>>

ConstTermReturn ==
    /\ ct.out.err = "pending"
    /\ ct.i > Len(lagPts)
    /\ ct' = [ct EXCEPT !.out = IF Len(lagPts) = 0 THEN Throw("NoPoints")
                                ELSE Result(ct.sumNum, ct.sumDen)]
    /\ UNCHANGED <<lagPts, lagX0, ev, solveVars, convVars>>

EvaluateStep ==
    /\ ct.out.err # "pending"
    /\ ev.out.err = "pending"
    /\ ev.i <= Len(lagPts)
    /\ ev' = Fold(ev, evaluateInner(lagX0, lagPts, ev.i, 1, lagPts[ev.i].y, 1))
    /\ UNCHANGED <<lagPts, lagX0, ct, solveVars, convVars>>

EvaluateReturn ==
    /\ ct.out.err # "pending"
    /\ ev.out.err = "pending"
    /\ ev.i > Len(lagPts)
    /\ ev' = [ev EXCEPT !.out = IF Len(lagPts) = 0 THEN Ok(0)
                                ELSE Result(ev.sumNum, ev.sumDen)]
    /\ UNCHANGED <<lagPts, lagX0, ct, solveVars, convVars>>

InitLagrange ==
    /\ \E m \in 0..MaxPoints : \E ps \in [1..m -> [x : XVals, y : LagY]] : lagPts = ps
    /\ lagX0 \in XVals
    /\ ct = Frame("pending")
    /\ ev = Frame("pending")
    /\ data = NoKeys
    /\ pc = "Idle"
    /\ points = <<>>
    /\ selected = <<>>
    /\ constantTerm = 0
    /\ error = "none"
    /\ tampered = 0
    /\ convArgs = NoConv
    /\ convOut = Throw("idle")

NextLagrange == ConstTermStep \/ ConstTermReturn \/ EvaluateStep \/ EvaluateReturn

SpecLagrange == InitLagrange /\ [][NextLagrange]_vars

TypeOK ==
    /\ pc \in {"Idle", "Parse", "Decode", "SelectSubset", "Interpolate", "Verify", "Done", "Failed"}
    /\ tampered \in 0..(MaxPoints + 1)

(***************************************************************************)
(* Reference definitions the properties are stated with.                   *)
(***************************************************************************)
\* the digit alphabet 0-9 a-z A-Z, digit value = position - 1
Alphabet == [i \in 1..62 |-> IF i <= 10 THEN 47 + i ELSE IF i <= 36 THEN 86 + i ELSE 28 + i]

IsAlnum(c) == \E i \in 1..62 : Alphabet[i] = c
DigitOf(c) == (CHOOSE i \in 1..62 : Alphabet[i] = c) - 1

RECURSIVE Pow(_, _)
Pow(b, e) == IF e = 0 THEN 1 ELSE b * Pow(b, e - 1)

\* sum over positions i of digit_i * b^(len-i)
RECURSIVE PositionalSum(_, _, _)
PositionalSum(s, b, i) ==
    IF i > Len(s) THEN 0
    ELSE DigitOf(s[i]) * Pow(b, Len(s) - i) + PositionalSum(s, b, i + 1)

PositionalValue(s, b) == PositionalSum(s, b, 1)

BaseOk(b) == b.kind = "int" /\ b.v >= 2 /\ b.v <= 62

ValidDigits(s, b) ==
    /\ BaseOk(b)
    /\ s # <<>>
    /\ \A i \in 1..Len(s) : IsAlnum(s[i]) /\ DigitOf(s[i]) < b.v

Offending(s, b) == {i \in 1..Len(s) : ~IsAlnum(s[i]) \/ DigitOf(s[i]) >= b.v}

ExpectedErr(s, b) ==
    IF ~BaseOk(b) THEN "InvalidBase"
    ELSE IF s = <<>> THEN "EmptyValue"
    ELSE IF Offending(s, b) = {} THEN "none"
    ELSE LET first == CHOOSE i \in Offending(s, b) : \A j \in Offending(s, b) : i <= j
         IN IF ~IsAlnum(s[first]) THEN "InvalidDigit" ELSE "DigitOutOfRange"

ToLower(s) == [i \in 1..Len(s) |-> IF s[i] >= 65 /\ s[i] <= 90 THEN s[i] + 32 ELSE s[i]]

Converted == convOut.err # "pending"

Terminal == pc \in {"Done", "Failed"}

Entries == data.entries
NumEntries == Len(data.entries)

KeysOk == data.hasKeys /\ IsInteger(data.n) /\ IsInteger(data.k)

EntriesValid ==
    \A i \in 1..NumEntries :
        IsInteger(Entries[i].x) /\ ValidDigits(Entries[i].value, Entries[i].base)

\* the point an entry stands for
PointOf(e) == [x |-> e.x.v, y |-> PositionalValue(e.value, e.base.v)]

DecodedSet == {PointOf(Entries[i]) : i \in 1..NumEntries}

DistinctX == \A i, j \in 1..NumEntries : i # j => Entries[i].x.v # Entries[j].x.v

\* c[1] + c[2] x + ... + c[Len(c)] x^(Len(c)-1)
RECURSIVE PolySum(_, _, _)
PolySum(c, x, i) == IF i > Len(c) THEN 0 ELSE c[i] * Pow(x, i - 1) + PolySum(c, x, i + 1)

PolyEval(c, x) == PolySum(c, x, 1)

\* the points the entries stand for, in input order
RECURSIVE DecodedFrom(_)
DecodedFrom(i) ==
    IF i > NumEntries THEN <<>> ELSE <<PointOf(Entries[i])>> \o DecodedFrom(i + 1)

\* every point of pts is a sample of the polynomial with coefficients c
SamplesOf(c, pts) == \A i \in 1..Len(pts) : pts[i].y = PolyEval(c, pts[i].x)

(***************************************************************************)
(* Properties of convertToDecimalBigInt (checked under SpecConvert).       *)
(***************************************************************************)
\* C5: for a base in 2..62 and a non-empty string whose digits are all below
\* the base, convertToDecimalBigInt returns the positional-notation value
\* sum of digit_i * base^(len-1-i).
C5_PositionalValue ==
    (Converted /\ ValidDigits(convArgs.value, convArgs.base))
        => convOut = Ok(PositionalValue(convArgs.value, convArgs.base.v))

\* "213" in base 4 has been decoded to 39
C5_Witness ==
    /\ convArgs = [value |-> <<50, 49, 51>>, base |-> Num(4)]
    /\ convOut = Ok(39)

C9_CaseInsensitive ==
    (Converted /\ convArgs.base.kind = "int" /\ convArgs.base.v <= 36
       /\ ValidDigits(ToLower(convArgs.value), convArgs.base))
        => convOut = Ok(PositionalValue(ToLower(convArgs.value), convArgs.base.v))

(***************************************************************************)
(* The interpolating polynomial in coefficient form: polynomials are       *)
(* sequences of integer coefficients, lowest degree first.                 *)
(***************************************************************************)
\* p * (X - a)
MulLinear(p, a) ==
    [i \in 1..(Len(p) + 1) |->
        (IF i > 1 THEN p[i - 1] ELSE 0) - a * (IF i <= Len(p) THEN p[i] ELSE 0)]

\* product over j # i, j >= from, of (X - x_j), times p
RECURSIVE BasisFrom(_, _, _, _)
BasisFrom(pts, i, from, p) ==
    IF from > Len(pts) THEN p
    ELSE IF from = i THEN BasisFrom(pts, i, from + 1, p)
    ELSE BasisFrom(pts, i, from + 1, MulLinear(p, pts[from].x))

\* product over j # i, j >= from, of (x_i - x_j)
RECURSIVE DenFrom(_, _, _)
DenFrom(pts, i, from) ==
    IF from > Len(pts) THEN 1
    ELSE IF from = i THEN DenFrom(pts, i, from + 1)
    ELSE (pts[i].x - pts[from].x) * DenFrom(pts, i, from + 1)

RECURSIVE DenProduct(_, _)
DenProduct(pts, i) == IF i > Len(pts) THEN 1 ELSE DenFrom(pts, i, 1) * DenProduct(pts, i + 1)

\* the coefficients of DenProduct * (the polynomial of degree < Len(pts) through pts)
RECURSIVE ScaledCoeff(_, _, _)
ScaledCoeff(pts, m, i) ==
    IF i > Len(pts) THEN 0
    ELSE pts[i].y * BigIntDiv(DenProduct(pts, 1), DenFrom(pts, i, 1)) * BasisFrom(pts, i, 1, <<1>>)[m]
         + ScaledCoeff(pts, m, i + 1)

\* every coefficient of the polynomial through pts (pairwise-distinct x) is an integer
IntegerCoefficients(pts) ==
    \A m \in 1..Len(pts) : BigIntRem(ScaledCoeff(pts, m, 1), DenProduct(pts, 1)) = 0

\* DenProduct * (the value at x of the polynomial through pts)
RECURSIVE ScaledValue(_, _, _)
ScaledValue(pts, x, m) ==
    IF m > Len(pts) THEN 0
    ELSE ScaledCoeff(pts, m, 1) * Pow(x, m - 1) + ScaledValue(pts, x, m + 1)

\* the point p lies on the polynomial through pts
OnPolynomial(pts, p) == ScaledValue(pts, p.x, 1) = p.y * DenProduct(pts, 1)

(***************************************************************************)
(* Properties of solve (checked under Spec).                               *)
(***************************************************************************)
\* C1: when the dataset consists of samples (x, P(x)), at pairwise-distinct
\* x, of a polynomial P with integer coefficients of degree d, and keys.k is
\* d+1 with at least d+1 samples, solve succeeds and returns P(0), however
\* many further samples of P the dataset holds.  P is the polynomial of
\* degree < k through the first k points in input order: it has integer
\* coefficients, its coefficient of x^(k-1) is not zero, and every point of
\* the dataset lies on it.
C1_RecoversConstantTerm ==
    (Terminal /\ KeysOk /\ data.k.v >= 1 /\ data.k.v <= NumEntries
       /\ DistinctX /\ EntriesValid)
        => LET pts == DecodedFrom(1)
               first == SubSeq(pts, 1, data.k.v)
           IN (/\ IntegerCoefficients(first)
               /\ ScaledCoeff(first, data.k.v, 1) # 0
               /\ \A i \in 1..Len(pts) : OnPolynomial(first, pts[i]))
                 => /\ pc = "Done"
                    /\ constantTerm * DenProduct(first, 1) = ScaledCoeff(first, 1, 1)

\* Test Case 1 (x^2 + 3 sampled at 1, 2, 3 and 6, k = 3) returned 3
C1_Witness ==
    /\ data = TestCase1
    /\ SamplesOf(<<3, 0, 1>>, DecodedFrom(1))
    /\ pc = "Done"
    /\ constantTerm = 3

\* the entry changed by Tamper is not among the k smallest x
TamperedNotSelected ==
    Cardinality({j \in 1..NumEntries : Entries[j].x.v < Entries[tampered].x.v}) >= data.k.v

\* C2 as stated: after one y-value of a dataset that solved is changed, solve
\* fails with VerificationFailed.
C2_TamperVerificationFailed ==
    (tampered # 0 /\ Terminal) => (pc = "Failed" /\ error = "VerificationFailed")

\* C2 as amended: when the dataset that solved has pairwise-distinct x and
\* more than keys.k points (keys.k >= 1), changing one y-value makes solve
\* fail, with VerificationFailed or NonIntegerResult, and with
\* VerificationFailed when the changed point is not a selected one.
C2_TamperRejected ==
    (tampered # 0 /\ Terminal /\ DistinctX /\ data.k.v >= 1 /\ NumEntries > data.k.v)
        => /\ pc = "Failed"
           /\ error \in {"VerificationFailed", "NonIntegerResult"}
           /\ (TamperedNotSelected => error = "VerificationFailed")

\* a selected point of a dataset with a spare point was changed and the
\* verification of the second run failed
C2_Witness ==
    /\ tampered # 0
    /\ DistinctX
    /\ data.k.v >= 1
    /\ NumEntries > data.k.v
    /\ ~TamperedNotSelected
    /\ pc = "Failed"
    /\ error = "VerificationFailed"

\* C3: when solve returns a result, evaluateAt over the selected points
\* reproduces the y of every point of the dataset, selected or not.
C3_AllPointsVerified ==
    pc = "Done" =>
        /\ Len(points) = NumEntries
        /\ \A i \in 1..NumEntries :
              evaluateAt(Entries[i].x.v, selected) = Ok(PointOf(Entries[i]).y)

\* a result was returned for a dataset with a point outside the selection
C3_Witness ==
    /\ pc = "Done"
    /\ Len(selected) >= 2
    /\ NumEntries > Len(selected)

\* two of the k smallest-x points have the same x
DupAmongSmallest ==
    \E i, j \in 1..NumEntries :
        /\ i # j
        /\ Entries[i].x.v = Entries[j].x.v
        /\ Cardinality({l \in 1..NumEntries : Entries[l].x.v < Entries[i].x.v}) + 2 <= data.k.v

\* C4: when two of the k selected (smallest-x) points share an x, solve fails
\* with DuplicateAbscissa before interpolating, and no division by zero
\* happens in any run.
C4_DuplicateAbscissa ==
    /\ (KeysOk /\ EntriesValid /\ data.k.v >= 1 /\ data.k.v <= NumEntries /\ DupAmongSmallest)
          => /\ pc \in {"Parse", "Decode", "SelectSubset", "Failed"}
             /\ (pc = "Failed" => error = "DuplicateAbscissa")
    /\ error \notin {"RangeError", "InternalMathError"}

\* a run with a duplicate x among the selected points has failed
C4_Witness ==
    /\ DupAmongSmallest
    /\ Len(selected) = data.k.v
    /\ pc = "Failed"
    /\ error = "DuplicateAbscissa"

\* keys.n or keys.k is absent, not an integer, or not positive
BadCount ==
    \/ ~KeysOk
    \/ data.n.v <= 0
    \/ data.k.v <= 0

\* C7: when keys.n or keys.k is absent, not an integer or not positive,
\* solve fails at the Parse stage with MissingField or InvalidCount before
\* decoding any point, and returns no result.
C7_ParseRejectsBadCounts ==
    BadCount =>
        /\ pc \in {"Parse", "Failed"}
        /\ (pc = "Failed" => error \in {"MissingField", "InvalidCount"})
        /\ points = <<>>

\* C7, its last part alone: no result is returned for such an input.
C7_NoResultForBadCounts == BadCount => pc # "Done"

\* C2, its last part alone: no constant term is returned for the changed dataset.
C2_TamperNeverReturns == tampered # 0 => pc # "Done"

\* C8: when the polynomial of degree < k through the selected points has a
\* non-integer coefficient, or a supplied point is off it, solve fails and
\* returns no constant term.
C8_IntegerPolynomialOnly ==
    pc = "Done" =>
        /\ IntegerCoefficients(selected)
        /\ \A p \in DecodedSet : OnPolynomial(selected, p)

\* C8, its second case alone: no result is returned when a supplied point is
\* off the polynomial through the selected points.
C8_NoPointOffPolynomial ==
    pc = "Done" => \A p \in DecodedSet : OnPolynomial(selected, p)

\* the k decoded points with the smallest x, as a set
SmallestK == {p \in DecodedSet : Cardinality({q \in DecodedSet : q.x < p.x}) < data.k.v}

\* C10: when solve succeeds with 1 <= keys.k <= number of decoded points,
\* selectedPoints holds exactly k points in ascending x order, and they are
\* the k decoded points with the smallest x whatever the order of the input;
\* with fewer than k decoded points solve fails with InsufficientPoints.
C10_SelectsSmallestK ==
    /\ (pc = "Done" /\ data.k.v >= 1 /\ data.k.v <= NumEntries)
          => /\ Len(selected) = data.k.v
             /\ \A i \in 1..(Len(selected) - 1) : selected[i].x <= selected[i + 1].x
             /\ {selected[i] : i \in 1..Len(selected)} = SmallestK
             /\ \A p \in DecodedSet : \A i \in 1..Len(selected) :
                   p.x >= selected[i].x \/ p \in {selected[j] : j \in 1..Len(selected)}
    /\ (Terminal /\ KeysOk /\ EntriesValid /\ NumEntries < data.k.v)
          => (pc = "Failed" /\ error = "InsufficientPoints")

\* a result whose selection is not a prefix of the input order
C10_Witness ==
    /\ pc = "Done"
    /\ data.k.v = 2
    /\ NumEntries = 3
    /\ Entries[1].x.v > Entries[2].x.v
    /\ Entries[2].x.v > Entries[3].x.v
    /\ Len(selected) = 2

(***************************************************************************)
(* The order of the stages of one solve call.                              *)
(***************************************************************************)
\* the stage that follows each stage when it does not fail
NextStage ==
    [Parse |-> "Decode", Decode |-> "SelectSubset", SelectSubset |-> "Interpolate",
     Interpolate |-> "Verify", Verify |-> "Done"]

\* the error kinds each stage can end the call with
StageErrors ==
    [Parse |-> {"MissingField"},
     Decode |-> {"InvalidKey", "BadPointFormat", "InvalidBase", "EmptyValue",
                 "InvalidDigit", "DigitOutOfRange"},
     SelectSubset |-> {"InsufficientPoints", "DuplicateAbscissa"},
     Interpolate |-> {"NoPoints", "DuplicateAbscissa", "NonIntegerResult"},
     Verify |-> {"VerificationFailed", "NonIntegerResult"}]

\* what decoding the entry e fails with, "none" when it decodes
EntryErr(e) ==
    IF ~IsInteger(e.x) THEN "InvalidKey"
    ELSE IF e.base.kind = "undefined" THEN "BadPointFormat"
    ELSE ExpectedErr(e.value, e.base)

BadEntries == {i \in 1..NumEntries : EntryErr(Entries[i]) # "none"}

FirstBadEntry == CHOOSE i \in BadEntries : \A j \in BadEntries : i <= j

\* one step of a solve call (a step that changes tampered starts another call)
StageStep ==
    /\ pc \in DOMAIN NextStage
    /\ pc' \in {NextStage[pc], "Failed"}
    /\ (pc' = "Failed" => error' \in StageErrors[pc])
    /\ (pc' # "Failed" => error' = "none")
    /\ (pc = "Decode" /\ BadEntries # {})
          => (pc' = "Failed" /\ error' = EntryErr(Entries[FirstBadEntry]))
    /\ (pc' = "Done") => verifyAllPoints(selected, points) = [err |-> "none", val |-> TRUE]

\* C11: a solve call runs Parse, Decode, SelectSubset, Interpolate, Verify,
\* Done once each in this order with no retry; the first stage that fails
\* ends the call with that stage's error and no later stage runs (a point
\* that does not decode is reported whatever the count of points and their
\* x), and Done is reached only from Verify, when the verification passed.
C11_StageOrder == [][tampered' = tampered => StageStep]_vars

\* a bad digit was reported for a dataset that also has fewer than k points
C11_Witness ==
    /\ pc = "Failed"
    /\ error = "DigitOutOfRange"
    /\ NumEntries < data.k.v

(***************************************************************************)
(* findConstantTerm against evaluateAt, and the running sum of both.       *)
(***************************************************************************)
Returned(f) == f.out.err \notin {"pending", "idle"}

\* the traced calls end as the calls solve makes (findConstantTerm, evaluateAt)
TraceMatchesCalls ==
    /\ Returned(ct) => ct.out = findConstantTerm(lagPts)
    /\ Returned(ev) => ev.out = evaluateAt(lagX0, lagPts)

\* C12: for every non-empty list of points (distinct or duplicate x, any
\* integer y), findConstantTerm(points) and evaluateAt(0, points) both return
\* the same integer or both fail with the same error kind, which is
\* DuplicateAbscissa or NonIntegerResult.
C12_ConstantTermIsEvaluateAtZero ==
    (Len(lagPts) > 0 /\ lagX0 = 0 /\ Returned(ct) /\ Returned(ev))
        => /\ ct.out = ev.out
           /\ ct.out.err \in {"none", "DuplicateAbscissa", "NonIntegerResult"}

\* both calls returned the same non-zero integer for two or more points
C12_Witness ==
    /\ Len(lagPts) >= 2
    /\ lagX0 = 0
    /\ Returned(ct) /\ Returned(ev)
    /\ ct.out.err = "none" /\ ct.out.val # 0
    /\ ev.out = ct.out

\* both calls failed with NonIntegerResult
C12_BothNonInteger ==
    /\ lagX0 = 0
    /\ ct.out = Throw("NonIntegerResult")
    /\ ev.out = Throw("NonIntegerResult")

\* both calls failed with DuplicateAbscissa
C12_BothDuplicate ==
    /\ lagX0 = 0
    /\ ct.out = Throw("DuplicateAbscissa")
    /\ ev.out = Throw("DuplicateAbscissa")

DistinctLagX == \A i, j \in 1..Len(lagPts) : i # j => lagPts[i].x # lagPts[j].x

\* the frames whose loop has folded at least one term into the sum
Folded == {f \in {ct, ev} : f.i > 1}

\* num/den has no common divisor above 1, that is gcd(|num|, |den|) = 1
LowestTerms(num, den) ==
    \A d \in 2..Abs(den) : ~(BigIntRem(num, d) = 0 /\ BigIntRem(den, d) = 0)

====
